---- MODULE Spec2Model ----
(***************************************************************************)
(* Discrete-event simulation of a three-tier web application               *)
(* (load balancer -> app servers -> optional cache -> database).           *)
(*                                                                         *)
(* The model follows src/src/simulation.py and src/src/models.py.  The     *)
(* SimPy primitives the code calls (Environment.run/step, process,         *)
(* timeout, Resource.request/release) are modelled at their call sites     *)
(* by what the library does: an event list ordered by (time, priority,     *)
(* creation order), Initialize and the `until` event URGENT, every other   *)
(* event NORMAL; Resource keeps `users` (holders) and `queue` (pending     *)
(* requests), a release removes the holder at once and hands the slot to   *)
(* the head of the queue when the Release event is processed or when the   *)
(* next request is issued, whichever comes first.                          *)
(*                                                                         *)
(* Virtual time is integral, so that equal event times do occur: an        *)
(* inter-arrival time is a value of 1..MaxGap, a service time is short (1) *)
(* or long (2).  np.random.random() is a cell of UniformDraws and a hit    *)
(* rate a number of cells.                                                 *)
(***************************************************************************)
EXTENDS Integers, Sequences, FiniteSets, TLC

\* ---------------------------------------------------------------- bounds
\* simulation_time of the run (run_simulation's argument)
SimTime == 4
\* largest inter-arrival time drawn
MaxGap == 3
\* largest num_app_servers
MaxServers == 2
\* Cache model on its own: largest capacity, number of keys, number of calls
MaxCap == 2
MaxKeys == 3
MaxAccesses == 4
\* analytical_mm1_metrics: largest rate passed
MaxRate == 10
\* calls of get_metrics on one system
MaxSnapshots == 2
\* deepest nesting of select_server calls the interpreter allows before it
\* raises RecursionError
MaxRecursion == 3

\* ------------------------------------------------------ program constants
CacheCapacity == 100
KeySpace == 1000
ResourceCapacity == 1
URGENT == 0
NORMAL == 1

InterArrivals == 1..MaxGap
\* a service time is short or long
ServiceTimes == 1..2
UniformDraws == 0..1
HitRates == 1..2
Strategies == {"round_robin", "random", "least_connections"}
\* what a caller can pass: run_simulation and the constructors take any
\* strategy string, any hit rate (3 stands for a rate above 1.0) and any
\* server count (0 stands for a count below one)
GivenStrategies == Strategies \cup {"weighted"}
GivenHitRates == HitRates \cup {3}
GivenServerCounts == 0..MaxServers

VARIABLES
    \* configuration
    load_balancing_strategy, cache_enabled, num_app_servers,
    \* simpy.Environment
    now, events, phase,
    \* Server objects, by name
    server,
    \* Cache, LoadBalancer, ThreeTierSystem counters
    cache, load_balancer, system,
    \* request_generator's local and its liveness
    request_id, generator_alive,
    \* request_process instances, by request id
    req,
    \* history: per server, the requests in the order they asked for the
    \* Resource, and in the order they began service
    request_order, service_order,
    \* history of the access calls made on a Cache used on its own
    access_log,
    \* the arguments and the outcome of a call of analytical_mm1_metrics
    analytical,
    \* the results ThreeTierSystem.get_metrics has returned, oldest first
    metrics

vars == <<load_balancing_strategy, cache_enabled, num_app_servers, now, events,
          phase, server, cache, load_balancer, system, request_id,
          generator_alive, req, request_order, service_order, access_log,
          analytical, metrics>>

\* ------------------------------------------------------------- helpers
Min(S) == CHOOSE x \in S : \A y \in S : x <= y

Range(s) == {s[i] : i \in 1..Len(s)}

Remove(s, x) == SelectSeq(s, LAMBDA y : y # x)

\* ------------------------------------------------------------- servers
AppName(i) == [kind |-> "app", idx |-> i]
DbName == [kind |-> "db", idx |-> 0]
CacheName == [kind |-> "cache", idx |-> 0]

\* ThreeTierSystem.app_servers: the list of application servers, 0-based in
\* the code, so app_servers[i + 1] here is servers[i] there.
AppServersOf(k) == [i \in 1..k |-> AppName(i - 1)]
app_servers == AppServersOf(num_app_servers)

AllServerNames == {AppName(i) : i \in 0..(MaxServers - 1)} \cup {DbName, CacheName}
Servers == Range(app_servers) \cup {DbName} \cup (IF cache_enabled THEN {CacheName} ELSE {})

NewServer == [users |-> <<>>, queue |-> <<>>,
              queue_lengths |-> <<>>, service_times |-> <<>>,
              response_times |-> <<>>,
              arrivals |-> 0, departures |-> 0,
              total_wait_time |-> 0, total_service_time |-> 0]

NewCache(cap, rate) == [capacity |-> cap, hit_rate |-> rate, cache_store |-> <<>>,
                        hits |-> 0, misses |-> 0, total_requests |-> 0]

\* ------------------------------------------------------------- events
\* eid is the event id: Schedule stamps it, growing with creation among the
\* pending events (the heap compares it only between pending events)
Event(t, p, k, r, s) ==
    [time |-> t, prio |-> p, eid |-> 0, kind |-> k, proc |-> r, srv |-> s]

\* heapq order of simpy: (time, priority, event id); the event id grows with
\* creation, so a new event goes behind every event of the same time and
\* priority.
PrecedesNewestFirst(e, ev) == e.time < ev.time \/ (e.time = ev.time /\ e.prio < ev.prio)
Precedes(e, ev) == e.time < ev.time \/ (e.time = ev.time /\ e.prio <= ev.prio)

Max(S) == CHOOSE x \in S : \A y \in S : y <= x
NextEid(hp) == 1 + Max({0} \cup {hp[i].eid : i \in 1..Len(hp)})

Schedule(hp, ev) ==
    LET n == Cardinality({i \in 1..Len(hp) : Precedes(hp[i], ev)})
        e == [ev EXCEPT !.eid = NextEid(hp)]
    IN  SubSeq(hp, 1, n) \o <<e>> \o SubSeq(hp, n + 1, Len(hp))


\* ------------------------------------------------- simpy.Resource(capacity=1)
\* A pair st = [sv |-> the servers, hp |-> the event list] is threaded through
\* the calls one handler makes.

\* Resource._do_put: the slot is given while fewer than `capacity` users hold it
CanPutLoose(sv, s) == Len(sv[s].users) <= ResourceCapacity
CanPut(sv, s) == Len(sv[s].users) < ResourceCapacity

\* the pending request _trigger_put tries: the oldest one
NextWaiterNewest(q) == q[Len(q)]
NextWaiter(q) == Head(q)

\* Resource._trigger_put: the head of the queue becomes a user and its Request
\* event is triggered (scheduled NORMAL at the current time)
TriggerPut(st, s, t) ==
    IF st.sv[s].queue # <<>> /\ CanPut(st.sv, s)
    THEN LET r == NextWaiter(st.sv[s].queue)
         IN  [sv |-> [st.sv EXCEPT ![s].users = Append(@, r),
                                   ![s].queue = Remove(@, r)],
              hp |-> Schedule(st.hp, Event(t, NORMAL, "Grant", r, s))]
    ELSE st

\* resource.request(): the request joins the queue, then _trigger_put
ResourceRequest(st, s, r, t) ==
    TriggerPut([sv |-> [st.sv EXCEPT ![s].queue = Append(@, r)], hp |-> st.hp], s, t)

\* leaving the `with` block: resource.release(req) removes the holder at once
\* and schedules the Release event, whose callback is _trigger_put
ResourceReleaseKeep(st, s, r, t) == st
ResourceReleaseSilent(st, s, r, t) ==
    [sv |-> [st.sv EXCEPT ![s].users = Remove(@, r)], hp |-> st.hp]
ResourceRelease(st, s, r, t) ==
    [sv |-> [st.sv EXCEPT ![s].users = Remove(@, r)],
     hp |-> Schedule(st.hp, Event(t, NORMAL, "Release", r, s))]

\* ------------------------------------------------------------- Server
\* Server.record_queue_length
RecordQueueLength(sv, s, t) ==
    [sv EXCEPT ![s].queue_lengths = Append(@, <<t, Len(sv[s].queue)>>)]

ArriveUncounted(st, s, r, t) ==
    ResourceRequest([sv |-> RecordQueueLength(st.sv, s, t), hp |-> st.hp], s, r, t)

\* request_process: arrival at a server, up to `yield req`
Arrive(st, s, r, t) ==
    LET sv1 == [st.sv EXCEPT ![s].arrivals = @ + 1]
        sv2 == RecordQueueLength(sv1, s, t)
    IN  ResourceRequest([sv |-> sv2, hp |-> st.hp], s, r, t)

\* request_process: after `yield req`: the wait is booked; the service time
\* just drawn is booked only once its timeout has elapsed
BookWaitEager(sv, s, wait, service) ==
    [sv EXCEPT ![s].total_wait_time = @ + wait,
               ![s].total_service_time = @ + service]
BookWait(sv, s, wait, service) == [sv EXCEPT ![s].total_wait_time = @ + wait]

\* the service time is booked when the service has elapsed
BookServiceNoDeparture(sv, s, wait, service) ==
    [sv EXCEPT ![s].total_service_time = @ + service,
               ![s].service_times = Append(@, service),
               ![s].response_times = Append(@, wait + service)]
BookService(sv, s, wait, service) ==
    [sv EXCEPT ![s].total_service_time = @ + service,
               ![s].service_times = Append(@, service),
               ![s].response_times = Append(@, wait + service),
               ![s].departures = @ + 1]

\* request_process: after the service timeout, to the end of the `with` block
Depart(st, s, r, t, wait, service) ==
    LET sv1 == BookService(st.sv, s, wait, service)
        sv2 == RecordQueueLength(sv1, s, t)
    IN  ResourceRelease([sv |-> sv2, hp |-> st.hp], s, r, t)

\* Server.get_utilization is total_service_time / now (0 at time 0); the
\* quotient lies in [0, 1] iff the numerator lies in [0, now]
UtilizationInUnit(sv, s, t) ==
    IF t = 0 THEN TRUE
    ELSE 0 <= sv[s].total_service_time /\ sv[s].total_service_time <= t

\* ------------------------------------------------------------- Cache
InStore(c, key) == key \in Range(c.cache_store)

\* OrderedDict: cache_store[key] = True appends a new key and leaves a stored
\* key where it is; move_to_end moves it; popitem(last=False) drops the first
Insert(store, key) == IF key \in Range(store) THEN store ELSE Append(store, key)
MoveToEnd(store, key) == Append(Remove(store, key), key)
EvictNever(store, cap) == store
Evict(store, cap) == IF Len(store) > cap THEN Tail(store) ELSE store

CacheAccessIfPresent(c, key, u) ==
    LET is_hit == u < c.hit_rate /\ InStore(c, key)
        store == IF is_hit
                 THEN MoveToEnd(c.cache_store, key)
                 ELSE Evict(Insert(c.cache_store, key), c.capacity)
    IN  [cache |-> [c EXCEPT !.total_requests = @ + 1,
                             !.hits = IF is_hit THEN @ + 1 ELSE @,
                             !.misses = IF is_hit THEN @ ELSE @ + 1,
                             !.cache_store = store],
         hit |-> is_hit]

CacheAccessMissUncounted(c, key, u) ==
    LET is_hit == u < c.hit_rate
        store == IF is_hit /\ InStore(c, key)
                 THEN MoveToEnd(c.cache_store, key)
                 ELSE Evict(Insert(c.cache_store, key), c.capacity)
    IN  [cache |-> [c EXCEPT !.total_requests = @ + 1,
                             !.hits = IF is_hit THEN @ + 1 ELSE @,
                             !.cache_store = store],
         hit |-> is_hit]

\* Cache.access(key) with u the value of np.random.random()
CacheAccess(c, key, u) ==
    LET is_hit == u < c.hit_rate
        store == IF is_hit /\ InStore(c, key)
                 THEN MoveToEnd(c.cache_store, key)
                 ELSE Evict(Insert(c.cache_store, key), c.capacity)
    IN  [cache |-> [c EXCEPT !.total_requests = @ + 1,
                             !.hits = IF is_hit THEN @ + 1 ELSE @,
                             !.misses = IF is_hit THEN @ ELSE @ + 1,
                             !.cache_store = store],
         hit |-> is_hit]

\* ---------------------------------------------------------- LoadBalancer
Load(sv, s) == Len(sv[s].queue) + Len(sv[s].users)

MinConnections(sv, servers) == Min({Load(sv, s) : s \in Range(servers)})

\* the servers select_server may return (np.random.choice is any of them)
LeastLoadedAny(sv, servers) == Range(servers)
LeastLoaded(sv, servers) ==
    {s \in Range(servers) : Load(sv, s) = MinConnections(sv, servers)}

SelectChoices(lb, strategy, servers, sv) ==
    CASE strategy = "round_robin" -> {servers[lb.current_index + 1]}
      [] strategy = "random" -> Range(servers)
      [] strategy = "least_connections" -> LeastLoaded(sv, servers)

\* the cursor after a round-robin selection
NextIndexStuck(i, n) == i
NextIndex(i, n) == (i + 1) % n

SelectedUncounted(lb, strategy, servers) ==
    [lb EXCEPT !.current_index = IF strategy = "round_robin"
                                 THEN NextIndex(@, Len(servers)) ELSE @]

\* LoadBalancer after select_server
Selected(lb, strategy, servers) ==
    [lb EXCEPT !.total_requests = @ + 1,
               !.current_index = IF strategy = "round_robin"
                                 THEN NextIndex(@, Len(servers)) ELSE @]

\* ------------------------------------------------------- request_process
RequestIds == 0..(SimTime - 1)
NoServer == [kind |-> "none", idx |-> 0]
NoRequest == [pc |-> "none", stage |-> "none", at |-> NoServer, app_server |-> NoServer,
              arrival_time |-> 0, wait_start |-> 0, wait_time |-> 0,
              service_time |-> 0, cache_hit |-> FALSE]

\* request_process: f"req_{request_id % 1000}"
RequestKey(r) == r % KeySpace

NotCalled == [called |-> FALSE]

\* ---------------------------------------------------------------- Init
\* run_simulation up to env.run: ThreeTierSystem(...), then
\* env.process(request_generator(...)) schedules the generator's Initialize
\* event (URGENT, time 0) and env.run(until=simulation_time) schedules the
\* `until` event (URGENT, time simulation_time).
InitSystem ==
    /\ now = 0
    /\ phase = "running"
    /\ events = Schedule(Schedule(<<>>, Event(0, URGENT, "GenInit", 0, NoServer)),
                         Event(SimTime, URGENT, "Stop", 0, NoServer))
    /\ server = [s \in AllServerNames |-> NewServer]
    /\ load_balancer = [current_index |-> 0, total_requests |-> 0]
    /\ system = [total_requests |-> 0, completed_requests |-> 0, end_to_end_times |-> <<>>]
    /\ request_id = 0
    /\ generator_alive = TRUE
    /\ req = [r \in RequestIds |-> NoRequest]
    /\ request_order = [s \in AllServerNames |-> <<>>]
    /\ service_order = [s \in AllServerNames |-> <<>>]
    /\ access_log = <<>>
    /\ analytical = NotCalled
    /\ metrics = <<>>

Init ==
    /\ load_balancing_strategy \in GivenStrategies
    /\ num_app_servers \in GivenServerCounts
    /\ cache_enabled \in BOOLEAN
    /\ cache \in {NewCache(CacheCapacity, h) :
                     h \in IF cache_enabled THEN GivenHitRates ELSE {0}}
    /\ InitSystem

\* ------------------------------------------------------ Environment.step
\* The next event is the head of the event list; processing it sets the clock
\* to its time.
Running == phase = "running" /\ events # <<>>
NextEvent == Head(events)
Rest == Tail(events)

\* what a simulation run never changes: its arguments, and the variables of
\* the helpers that are not part of a run
Config == <<load_balancing_strategy, cache_enabled, num_app_servers, access_log,
            analytical, metrics>>

\* request_generator, `while env.now < simulation_time`: the next inter-arrival
\* time is drawn and its timeout scheduled, or the generator ends
GeneratorLoop(hp, t) ==
    IF t < SimTime
    THEN \E d \in InterArrivals :
            /\ events' = Schedule(hp, Event(t + d, NORMAL, "GenTimeout", 0, NoServer))
            /\ generator_alive' = TRUE
    ELSE /\ events' = hp
         /\ generator_alive' = FALSE

\* the generator's Initialize event: request_id = 0 and the first loop test
GeneratorStart ==
    /\ Running /\ NextEvent.kind = "GenInit"
    /\ now' = NextEvent.time
    /\ request_id' = 0
    /\ GeneratorLoop(Rest, NextEvent.time)
    /\ UNCHANGED <<Config, phase, server, cache, load_balancer, system, req,
                   request_order, service_order>>

\* request_generator after `yield env.timeout(inter_arrival_time)`: the arrival
\* is admitted below the horizon (env.process schedules the new process's
\* Initialize event, URGENT), then the loop test
Admitted(t) == t < SimTime
NextRequestIdSame(i) == i
NextRequestId(i) == i + 1

GeneratorArrival ==
    /\ Running /\ NextEvent.kind = "GenTimeout"
    /\ LET t == NextEvent.time
           admit == Admitted(t)
           hp == IF admit
                 THEN Schedule(Rest, Event(t, URGENT, "ReqInit", request_id, NoServer))
                 ELSE Rest
       IN  /\ now' = t
           /\ system' = IF admit THEN [system EXCEPT !.total_requests = @ + 1] ELSE system
           /\ req' = IF admit
                     THEN [req EXCEPT ![request_id] =
                              [NoRequest EXCEPT !.pc = "init", !.arrival_time = t]]
                     ELSE req
           /\ request_id' = IF admit THEN NextRequestId(request_id) ELSE request_id
           /\ GeneratorLoop(hp, t)
    /\ UNCHANGED <<Config, phase, server, cache, load_balancer,
                   request_order, service_order>>

\* select_server returns a server when the strategy is one of the three it
\* tests for and the server list is not empty
CanSelect(strategy, servers) == strategy \in Strategies /\ Len(servers) >= 1

\* request_process from its start to the first `yield req`: select_server,
\* arrival at the chosen app server, resource.request()
RequestStart ==
    /\ Running /\ NextEvent.kind = "ReqInit"
    /\ CanSelect(load_balancing_strategy, app_servers)
    /\ LET t == NextEvent.time
           r == NextEvent.proc
       IN  \E s \in SelectChoices(load_balancer, load_balancing_strategy, app_servers, server) :
             \E st \in {Arrive([sv |-> server, hp |-> Rest], s, r, t)} :
                 /\ now' = t
                 /\ load_balancer' = Selected(load_balancer, load_balancing_strategy, app_servers)
                 /\ server' = st.sv
                 /\ events' = st.hp
                 /\ req' = [req EXCEPT ![r].pc = "wait", ![r].stage = "app",
                                       ![r].at = s, ![r].app_server = s,
                                       ![r].wait_start = t]
                 /\ request_order' = [request_order EXCEPT ![s] = Append(@, r)]
    /\ UNCHANGED <<Config, phase, cache, system, request_id, generator_alive,
                   service_order>>

\* request_process started with a strategy select_server does not test for, or
\* with no app server: select_server raises. With an unknown strategy its
\* `else` branch calls select_server again, each call counting in
\* total_requests, until the interpreter raises RecursionError; with an empty
\* list the first call counts once and raises on the list. The exception ends
\* the process, whose failure event is scheduled at the current time.
SelectServerFails ==
    /\ Running /\ NextEvent.kind = "ReqInit"
    /\ ~CanSelect(load_balancing_strategy, app_servers)
    /\ LET t == NextEvent.time
           r == NextEvent.proc
       IN  /\ now' = t
           /\ \E depth \in 2..MaxRecursion :
                load_balancer' = [load_balancer EXCEPT !.total_requests =
                    @ + IF load_balancing_strategy \in Strategies THEN 1 ELSE depth]
           /\ events' = Schedule(Rest, Event(t, NORMAL, "ProcFail", r, NoServer))
           /\ req' = [req EXCEPT ![r].pc = "failed"]
    /\ UNCHANGED <<Config, phase, server, cache, system, request_id,
                   generator_alive, request_order, service_order>>

\* the failure event of a process is processed: nothing handles it, so
\* Environment.step raises the exception and run_simulation ends with it
ProcessFailed ==
    /\ Running /\ NextEvent.kind = "ProcFail"
    /\ now' = NextEvent.time
    /\ events' = Rest
    /\ phase' = "failed"
    /\ UNCHANGED <<Config, server, cache, load_balancer, system, request_id,
                   generator_alive, req, request_order, service_order>>

\* `wait_time = env.now - wait_start`
WaitTimeReversed(t, wait_start) == wait_start - t
WaitTime(t, wait_start) == t - wait_start

\* request_process resumed by its Request event (`yield req` returns, at the
\* app, cache or db server): the wait is booked, the service time drawn and
\* its timeout scheduled
RequestGranted ==
    /\ Running /\ NextEvent.kind = "Grant"
    /\ LET t == NextEvent.time
           r == NextEvent.proc
           s == req[r].at
           wait == WaitTime(t, req[r].wait_start)
       IN  \E d \in ServiceTimes :
             /\ now' = t
             /\ server' = BookWait(server, s, wait, d)
             /\ events' = Schedule(Rest, Event(t + d, NORMAL, "Timeout", r, s))
             /\ req' = [req EXCEPT ![r].pc = "serve", ![r].wait_time = wait,
                                   ![r].service_time = d]
             /\ service_order' = [service_order EXCEPT ![s] = Append(@, r)]
    /\ UNCHANGED <<Config, phase, cache, load_balancer, system, request_id,
                   generator_alive, request_order>>

\* `if cache_hit and system.cache_enabled: ... else:` the server of the
\* second stage
SecondStageAlwaysDb(hit) == DbName
SecondStage(hit) == IF hit THEN CacheName ELSE DbName

\* request_process resumed by the app server's service timeout: departure and
\* release there, the cache probe, and arrival at the cache or the db server
AppServiceDone ==
    /\ Running /\ NextEvent.kind = "Timeout" /\ req[NextEvent.proc].stage = "app"
    /\ LET t == NextEvent.time
           r == NextEvent.proc
           s == req[r].at
       IN  \E u \in UniformDraws,
              st1 \in {Depart([sv |-> server, hp |-> Rest], s, r, t,
                              req[r].wait_time, req[r].service_time)} :
             LET probe == IF cache_enabled
                          THEN CacheAccess(cache, RequestKey(r), u)
                          ELSE [cache |-> cache, hit |-> FALSE]
                 nxt == SecondStage(probe.hit)
             IN  \E st2 \in {Arrive(st1, nxt, r, t)} :
                 /\ now' = t
                 /\ cache' = probe.cache
                 /\ server' = st2.sv
                 /\ events' = st2.hp
                 /\ req' = [req EXCEPT ![r].pc = "wait", ![r].cache_hit = probe.hit,
                                       ![r].stage = nxt.kind, ![r].at = nxt,
                                       ![r].wait_start = t]
                 /\ request_order' = [request_order EXCEPT ![nxt] = Append(@, r)]
    /\ UNCHANGED <<Config, phase, load_balancer, system, request_id,
                   generator_alive, service_order>>

\* request_process, end: the end-to-end time is appended and the completion
\* counted
RecordCompletionUnmeasured(sys, end_to_end_time) ==
    [sys EXCEPT !.end_to_end_times = Append(@, 0),
                !.completed_requests = @ + 1]
RecordCompletionUncounted(sys, end_to_end_time) ==
    [sys EXCEPT !.end_to_end_times = Append(@, end_to_end_time)]
RecordCompletion(sys, end_to_end_time) ==
    [sys EXCEPT !.end_to_end_times = Append(@, end_to_end_time),
                !.completed_requests = @ + 1]

\* request_process resumed by the cache or db server's service timeout:
\* departure and release there, then the end-to-end record
SecondServiceDone ==
    /\ Running /\ NextEvent.kind = "Timeout" /\ req[NextEvent.proc].stage # "app"
    /\ LET t == NextEvent.time
           r == NextEvent.proc
           s == req[r].at
       IN  \E st \in {Depart([sv |-> server, hp |-> Rest], s, r, t,
                              req[r].wait_time, req[r].service_time)} :
           /\ now' = t
           /\ server' = st.sv
           /\ events' = st.hp
           /\ system' = RecordCompletion(system, t - req[r].arrival_time)
           /\ req' = [req EXCEPT ![r].pc = "done"]
    /\ UNCHANGED <<Config, cache, phase, load_balancer, request_id,
                   generator_alive, request_order, service_order>>

\* the Release event is processed: its callback _trigger_put hands the slot to
\* the head of the queue, if there is one and the slot is still free
ReleaseProcessed ==
    /\ Running /\ NextEvent.kind = "Release"
    /\ LET t == NextEvent.time
       IN  \E st \in {TriggerPut([sv |-> server, hp |-> Rest], NextEvent.srv, t)} :
           /\ now' = t
           /\ server' = st.sv
           /\ events' = st.hp
    /\ UNCHANGED <<Config, cache, phase, load_balancer, system, request_id,
                   generator_alive, req, request_order, service_order>>

StopSimulationIgnored ==
    /\ Running /\ NextEvent.kind = "Stop"
    /\ now' = NextEvent.time
    /\ events' = Rest
    /\ UNCHANGED <<Config, phase, server, cache, load_balancer, system, request_id,
                   generator_alive, req, request_order, service_order>>

\* the `until` event is processed: env.run returns with the clock at
\* simulation_time, and run_simulation collects the metrics
StopSimulation ==
    /\ Running /\ NextEvent.kind = "Stop"
    /\ now' = NextEvent.time
    /\ events' = Rest
    /\ phase' = "returned"
    /\ UNCHANGED <<Config, server, cache, load_balancer, system, request_id,
                   generator_alive, req, request_order, service_order>>

Next ==
    \/ GeneratorStart
    \/ GeneratorArrival
    \/ RequestStart
    \/ SelectServerFails
    \/ ProcessFailed
    \/ RequestGranted
    \/ AppServiceDone
    \/ SecondServiceDone
    \/ ReleaseProcessed
    \/ StopSimulation

Spec == Init /\ [][Next]_vars

\* Environment.run steps while an event is pending: it does not pause
FairSpec == Spec /\ WF_vars(Next)

\* ------------------------------------------------------------ metrics
\* A quotient n / d is kept as the pair <<n, d>>; the metrics that divide by
\* env.now or by a count are 0.0 when the divisor is 0.
Quot(n, d) == IF d > 0 THEN <<n, d>> ELSE <<0, 1>>

RECURSIVE SumSeq(_)
SumSeq(s) == IF s = <<>> THEN 0 ELSE Head(s) + SumSeq(Tail(s))

\* Server.get_avg_queue_length: the area under the recorded queue lengths,
\* each sample weighted by the time to the next sample
QueueArea(ql) ==
    IF Len(ql) < 2 THEN 0
    ELSE SumSeq([i \in 1..(Len(ql) - 1) |-> ql[i][2] * (ql[i + 1][1] - ql[i][1])])

\* Server.get_metrics
ServerGetMetrics(sv, s, t) ==
    [utilization |-> Quot(sv[s].total_service_time, t),
     avg_queue_length |-> Quot(QueueArea(sv[s].queue_lengths), t),
     avg_response_time |-> Quot(SumSeq(sv[s].response_times), Len(sv[s].response_times)),
     throughput |-> Quot(sv[s].departures, t),
     arrivals |-> sv[s].arrivals,
     departures |-> sv[s].departures]

\* Cache.get_metrics
CacheGetMetrics(c) ==
    [total_requests |-> c.total_requests, hits |-> c.hits, misses |-> c.misses,
     hit_rate |-> Quot(c.hits, c.total_requests),
     capacity |-> c.capacity, current_size |-> Len(c.cache_store)]

\* np.mean over the app servers is kept as the list it averages
MeanOf(list) == [mean_of |-> list]

\* ThreeTierSystem.get_metrics: `if self.cache_enabled:` adds two keys
OptionalKeysAlways(enabled) == {"cache", "cache_server"}
OptionalKeys(enabled) == IF enabled THEN {"cache", "cache_server"} ELSE {}

SystemKeys == {"app_server", "app_servers_individual", "load_balancer",
               "db_server", "system"}

SystemGetMetricsKeys == SystemKeys \cup OptionalKeys(cache_enabled)

\* 'app_servers_individual': one entry per element of self.app_servers
IndividualEntries == 1..Len(app_servers)

SystemGetMetricsCounting == [k \in SystemGetMetricsKeys |-> Len(metrics)]

SystemGetMetrics ==
    LET each == [i \in IndividualEntries |->
                    ServerGetMetrics(server, app_servers[i], now)]
    IN  [k \in SystemGetMetricsKeys |->
           CASE k = "app_server" ->
                  [utilization |-> MeanOf([i \in DOMAIN each |-> each[i].utilization]),
                   avg_queue_length |->
                       MeanOf([i \in DOMAIN each |-> each[i].avg_queue_length]),
                   avg_response_time |->
                       MeanOf([i \in DOMAIN each |-> each[i].avg_response_time]),
                   throughput |-> MeanOf([i \in DOMAIN each |-> each[i].throughput]),
                   arrivals |-> SumSeq([i \in DOMAIN each |-> each[i].arrivals]),
                   departures |-> SumSeq([i \in DOMAIN each |-> each[i].departures])]
             [] k = "app_servers_individual" ->
                  [i \in DOMAIN each |-> [name |-> app_servers[i], metrics |-> each[i]]]
             [] k = "load_balancer" ->
                  [strategy |-> load_balancing_strategy,
                   total_requests |-> load_balancer.total_requests,
                   num_servers |-> num_app_servers]
             [] k = "db_server" -> ServerGetMetrics(server, DbName, now)
             [] k = "system" ->
                  [total_requests |-> system.total_requests,
                   completed_requests |-> system.completed_requests,
                   avg_end_to_end_time |-> Quot(SumSeq(system.end_to_end_times),
                                                Len(system.end_to_end_times)),
                   system_throughput |-> Quot(system.completed_requests, now)]
             [] k = "cache" -> CacheGetMetrics(cache)
             [] k = "cache_server" -> ServerGetMetrics(server, CacheName, now)]

\* run_simulation after env.run: the metrics and the echo of the arguments
RunMetricsKeys == SystemGetMetricsKeys \cup {"parameters"}

RunMetrics ==
    [k \in RunMetricsKeys |->
        IF k = "parameters"
        THEN [cache_enabled |-> cache_enabled,
              cache_hit_rate |-> IF cache_enabled THEN cache.hit_rate ELSE -1,
              num_app_servers |-> num_app_servers,
              load_balancing_strategy |-> load_balancing_strategy,
              simulation_time |-> SimTime]
        ELSE SystemGetMetrics[k]]

\* ---------------------------------------------- get_metrics as a call
\* run_simulation calls system.get_metrics() once env.run has returned; a
\* caller holding the system may call it again. Server.get_metrics,
\* Cache.get_metrics and ThreeTierSystem.get_metrics only read.
GetMetricsCall ==
    /\ phase = "returned"
    /\ Len(metrics) < MaxSnapshots
    /\ metrics' = Append(metrics, SystemGetMetrics)
    /\ UNCHANGED <<load_balancing_strategy, cache_enabled, num_app_servers,
                   access_log, analytical, now, events, phase, server, cache,
                   load_balancer, system, request_id, generator_alive, req,
                   request_order, service_order>>

NextSnapshot ==
    \/ Next
    \/ GetMetricsCall

SpecSnapshot == Init /\ [][NextSnapshot]_vars

\* ------------------------------------------------ the Cache on its own
\* Cache(capacity, hit_rate) receives any sequence of access calls
Keys == 0..(MaxKeys - 1)

InitCache ==
    /\ load_balancing_strategy = "round_robin"
    /\ num_app_servers = 1
    /\ cache_enabled = TRUE
    /\ cache \in {NewCache(c, h) : c \in 1..MaxCap, h \in HitRates}
    /\ InitSystem

CacheAccessCall ==
    /\ cache.total_requests < MaxAccesses
    /\ \E key \in Keys, u \in UniformDraws :
          /\ cache' = CacheAccess(cache, key, u).cache
          /\ access_log' = Append(access_log,
                                  [key |-> key, hit |-> CacheAccess(cache, key, u).hit])
    /\ UNCHANGED <<load_balancing_strategy, cache_enabled, num_app_servers,
                   analytical, metrics, now, events, phase, server, load_balancer, system,
                   request_id, generator_alive, req, request_order, service_order>>

SpecCache == InitCache /\ [][CacheAccessCall]_vars

\* ------------------------------------- analytical_mm1_metrics on its own
\* A float result is float('inf') or the quotient num / den.
Infinite == [inf |-> TRUE, num |-> 0, den |-> 1]
Finite(n, d) == [inf |-> FALSE, num |-> n, den |-> d]

Rates == 0..MaxRate

\* `if arrival_rate >= service_rate:`
UnstableStrict(arrival_rate, service_rate) == arrival_rate > service_rate
Unstable(arrival_rate, service_rate) == arrival_rate >= service_rate

\* The finite formulas divide by service_rate, by 1 - rho and by
\* arrival_rate; Python raises ZeroDivisionError when a divisor is 0.
AnalyticalMM1(arrival_rate, service_rate) ==
    IF Unstable(arrival_rate, service_rate)
    THEN [raised |-> FALSE,
          utilization |-> Infinite,
          avg_queue_length |-> Infinite,
          avg_response_time |-> Infinite,
          avg_waiting_time |-> Infinite,
          throughput |-> arrival_rate]
    ELSE IF service_rate = 0 \/ service_rate - arrival_rate = 0 \/ arrival_rate = 0
         THEN [raised |-> TRUE]
         ELSE LET gap == service_rate - arrival_rate
              IN  [raised |-> FALSE,
                   utilization |-> Finite(arrival_rate, service_rate),
                   avg_queue_length |->
                       Finite(arrival_rate * arrival_rate, service_rate * gap),
                   avg_number_in_system |-> Finite(arrival_rate, gap),
                   avg_response_time |-> Finite(1, gap),
                   avg_waiting_time |-> Finite(arrival_rate, service_rate * gap),
                   throughput |-> arrival_rate]

InitMM1 ==
    /\ load_balancing_strategy = "round_robin"
    /\ num_app_servers = 1
    /\ cache_enabled = FALSE
    /\ cache = NewCache(CacheCapacity, 0)
    /\ InitSystem

AnalyticalCall ==
    /\ ~analytical.called
    /\ \E a \in Rates, s \in Rates :
          analytical' = [called |-> TRUE, arrival_rate |-> a, service_rate |-> s,
                         result |-> AnalyticalMM1(a, s)]
    /\ UNCHANGED <<load_balancing_strategy, cache_enabled, num_app_servers,
                   access_log, metrics, now, events, phase, server, cache, load_balancer,
                   system, request_id, generator_alive, req, request_order,
                   service_order>>

SpecMM1 == InitMM1 /\ [][AnalyticalCall]_vars

\* =================================================================
\* Properties
\* =================================================================
InFlight == {r \in RequestIds : req[r].pc \in {"init", "wait", "serve"}}
Holders(s) == Range(server[s].users)
Waiters(s) == Range(server[s].queue)
Idle(s) == server[s].users = <<>> /\ server[s].queue = <<>>
IsPrefix(a, b) == Len(a) <= Len(b) /\ a = SubSeq(b, 1, Len(a))

\* C2 (as stated): when run_simulation returns, every admitted request has
\* completed: completed_requests = total_requests and departures = arrivals on
\* every server.
C2_AllAdmittedComplete ==
    phase = "returned" =>
        /\ system.completed_requests = system.total_requests
        /\ \A s \in Servers : server[s].departures = server[s].arrivals

\* C2 (amended): no admitted request is dropped, but the run stops at the
\* horizon: when run_simulation returns, the requests not completed are exactly
\* those still in flight, each still pending its start or waiting for or holding
\* the Resource of its server, and on every server arrivals - departures is the
\* number of requests waiting or in service there.
C2_InFlightAtHorizon ==
    phase = "returned" =>
        /\ system.total_requests - system.completed_requests = Cardinality(InFlight)
        /\ \A r \in InFlight :
              \/ req[r].pc = "init" /\ \E i \in 1..Len(events) :
                                          events[i].kind = "ReqInit" /\ events[i].proc = r
              \/ req[r].pc = "wait" /\ r \in Waiters(req[r].at) \cup Holders(req[r].at)
              \/ req[r].pc = "serve" /\ Holders(req[r].at) = {r}
        /\ \A s \in Servers :
              server[s].arrivals - server[s].departures = Load(server, s)

C2_Witness ==
    /\ phase = "returned"
    /\ system.completed_requests > 0
    /\ system.completed_requests < system.total_requests
    /\ \E r \in InFlight : req[r].pc = "serve" /\ req[r].stage = "db"

\* C3: on every server departures <= arrivals, system-wide completed_requests
\* <= total_requests, and when nothing is queued or in service anywhere,
\* departures = arrivals on every server.
C3_Conservation ==
    /\ \A s \in AllServerNames : server[s].departures <= server[s].arrivals
    /\ system.completed_requests <= system.total_requests
    /\ (\A s \in AllServerNames : Idle(s)) =>
           \A s \in AllServerNames : server[s].departures = server[s].arrivals

C3_Witness ==
    /\ \A s \in AllServerNames : Idle(s)
    /\ system.completed_requests >= 1
    /\ server[DbName].departures >= 1
    /\ phase = "running"

\* C4: a server's Resource has at most one holder, and at most one request
\* process is between acquiring and releasing the same server.
Serving(s) == {r \in RequestIds : req[r].at = s /\ req[r].pc = "serve"}

C4_MutualExclusion ==
    \A s \in AllServerNames :
        /\ Len(server[s].users) <= 1
        /\ Cardinality(Serving(s) \cup Holders(s)) <= 1

C4_Witness ==
    \E s \in Servers :
        /\ Cardinality(Serving(s)) = 1
        /\ Len(server[s].queue) >= 1

\* C5: on every server the requests begin service in the order in which they
\* asked for its Resource.
C5_FifoOrder ==
    \A s \in AllServerNames : IsPrefix(service_order[s], request_order[s])

C5_Witness ==
    \E s \in Servers :
        /\ Len(service_order[s]) >= 2
        /\ server[s].total_wait_time > 0
        /\ server[s].queue # <<>>

\* C6: a slot that was released while requests wait
FreeWithWaiters(s) == server[s].users = <<>> /\ server[s].queue # <<>>

\* C6 (as stated): the hand-off is atomic: no request process runs
\* select_server and reads the holders of an app server whose slot has been
\* released but not yet handed to the waiting request.
C6_AtomicHandOff ==
    ~ /\ Running
      /\ NextEvent.kind = "ReqInit"
      /\ load_balancing_strategy = "least_connections"
      /\ \E s \in Range(app_servers) : FreeWithWaiters(s)

\* C6 (amended): a released slot with waiters stays free only within the
\* current virtual time, and the next holder is the earliest-queued waiter and
\* no one else; requests that join meanwhile queue behind.
C6_HandOffToHead ==
    [][\A s \in AllServerNames :
          FreeWithWaiters(s) =>
              /\ now' = now
              /\ server'[s].users \in {<<>>, <<Head(server[s].queue)>>}
              /\ server'[s].users = <<>> => server'[s].queue = server[s].queue
              /\ server'[s].users # <<>> =>
                     IsPrefix(Tail(server[s].queue), server'[s].queue)]_vars

C6_Witness ==
    /\ Running
    /\ NextEvent.kind = "ReqInit"
    /\ \E s \in Range(app_servers) :
          FreeWithWaiters(s) /\ load_balancer.total_requests >= 2

\* C7: the recency set never holds more than `capacity` keys.
C7_BoundedOccupancy == Len(cache.cache_store) <= cache.capacity

C7_Witness ==
    /\ Len(cache.cache_store) = cache.capacity
    /\ cache.total_requests > cache.capacity + 1
    /\ cache.hits > 0
    /\ cache.misses > 0

\* C8: under round_robin the i-th dispatched request goes to server i mod k,
\* so after a multiple of k dispatches every server got the same number.
Dispatched == {r \in RequestIds : req[r].pc \in {"wait", "serve", "done"}}

C8_RoundRobin ==
    (load_balancing_strategy = "round_robin" /\ num_app_servers >= 1) =>
        /\ \A r \in Dispatched : req[r].app_server = AppName(r % num_app_servers)
        /\ load_balancer.total_requests % num_app_servers = 0 =>
              \A s \in Range(app_servers) :
                  server[s].arrivals * num_app_servers = load_balancer.total_requests

C8_Witness ==
    /\ load_balancing_strategy = "round_robin"
    /\ num_app_servers = 2
    /\ load_balancer.total_requests = 2
    /\ \E r \in Dispatched : req[r].app_server = AppName(1) /\ ~Idle(AppName(0))

\* C9: under least_connections the server a request is assigned to, and joins
\* in the same step, has the least waiting + in-service count of all app
\* servers at that instant.
C9_LeastConnections ==
    [][(Running /\ NextEvent.kind = "ReqInit"
          /\ load_balancing_strategy = "least_connections"
          /\ num_app_servers >= 1) =>
          LET r == NextEvent.proc
              s == req'[r].app_server
          IN  /\ s \in Range(app_servers)
              /\ Load(server, s) = MinConnections(server, app_servers)
              /\ r \in Range(server'[s].queue) \cup Range(server'[s].users)]_vars

C9_Witness ==
    /\ load_balancing_strategy = "least_connections"
    /\ \E r \in Dispatched, s \in Range(app_servers) :
          /\ req[r].arrival_time = now
          /\ req[r].app_server # s
          /\ Load(server, s) >= 1
          /\ Load(server, req[r].app_server) = 1

\* C10: total_service_time never exceeds the elapsed virtual time, so the
\* utilization of every server lies in [0, 1].
C10_UtilizationBound ==
    \A s \in AllServerNames : UtilizationInUnit(server, s, now)

C10_Witness ==
    \E s \in Servers :
        /\ server[s].total_service_time >= 2
        /\ server[s].users # <<>>
        /\ now > 0

\* a configuration the program is meant for: a strategy select_server tests
\* for, at least one app server, a hit rate within [0, 1]
WellFormed ==
    /\ load_balancing_strategy \in Strategies
    /\ num_app_servers >= 1
    /\ cache_enabled => cache.hit_rate \in 0..2

\* C11: for every well-formed configuration the run terminates: the event
\* loop ends and run_simulation returns its metrics.
C11_Termination == WellFormed => <>(phase = "returned")

C11_Witness ==
    /\ WellFormed
    /\ phase = "returned"
    /\ now = SimTime
    /\ system.total_requests >= 2
    /\ events # <<>>

Spawned == {r \in RequestIds : req[r].pc # "none"}

\* C12: an arrival is admitted only at a time strictly below simulation_time;
\* each admitted arrival adds one to total_requests and spawns exactly one
\* request, with the next id and the current clock as its arrival_time; the
\* ids spawned are exactly 0..total_requests-1 and no arrival_time reaches
\* simulation_time.
C12_ArrivalAdmission ==
    [][/\ Spawned' = 0..(system'.total_requests - 1)
       /\ request_id' = system'.total_requests
       /\ \A r \in Spawned' : req'[r].arrival_time < SimTime
       /\ \A r \in Spawned : req'[r].arrival_time = req[r].arrival_time
       /\ system'.total_requests # system.total_requests =>
             /\ system'.total_requests = system.total_requests + 1
             /\ now' < SimTime
             /\ Spawned' \ Spawned = {system.total_requests}
             /\ req'[system.total_requests].pc = "init"
             /\ req'[system.total_requests].arrival_time = now'
             /\ Cardinality({i \in 1..Len(events') :
                                /\ events'[i].kind = "ReqInit"
                                /\ events'[i].proc = system.total_requests}) = 1
       /\ Spawned' # Spawned => system'.total_requests # system.total_requests]_vars

C12_Witness ==
    /\ request_id = 3
    /\ system.total_requests = 3
    /\ req[2].pc = "init"
    /\ req[2].arrival_time = now
    /\ now = SimTime - 1

Visited(r, s) == \E i \in 1..Len(request_order[s]) : request_order[s][i] = r
Served(r, s) == \E i \in 1..Len(service_order[s]) : service_order[s][i] = r
NoRepeat(seq) == \A i, j \in 1..Len(seq) : i < j => seq[i] # seq[j]
AppNames == {s \in AllServerNames : s.kind = "app"}

\* C13: every request is served by exactly one app server first; after a
\* cache hit it goes to the cache server and never to the database server;
\* after a miss, or with caching disabled, it goes to the database server and
\* never to the cache server; none completes without visiting one of the two.
\* (request_order records who arrived where, service_order who was served.)
C13_RequestRouting ==
    /\ \A s \in AllServerNames :
          /\ NoRepeat(request_order[s])
          /\ \A i \in 1..Len(request_order[s]) :
                LET r == request_order[s][i]
                IN  /\ r < system.total_requests
                    /\ s.kind = "app" => req[r].app_server = s
                    /\ s.kind = "cache" =>
                          cache_enabled /\ req[r].cache_hit /\ req[r].stage = "cache"
                    /\ s.kind = "db" => ~req[r].cache_hit /\ req[r].stage = "db"
    /\ \A r \in 0..(system.total_requests - 1) :
          /\ req[r].pc \in {"wait", "serve", "done"} =>
                /\ req[r].app_server \in Range(app_servers)
                /\ Visited(r, req[r].app_server)
          /\ req[r].cache_hit => req[r].stage = "cache"
          /\ req[r].stage = "cache" =>
                Visited(r, CacheName) /\ Served(r, req[r].app_server)
          /\ req[r].stage = "db" =>
                Visited(r, DbName) /\ Served(r, req[r].app_server)
          /\ req[r].pc = "done" =>
                /\ req[r].stage \in {"cache", "db"}
                /\ Served(r, req[r].at)

C13_Witness ==
    \E r, q \in RequestIds :
        /\ req[r].pc = "done" /\ req[r].cache_hit /\ Visited(r, CacheName)
        /\ req[q].stage = "db" /\ ~req[q].cache_hit /\ Visited(q, DbName)

\* C14: with caching enabled, in every state between events the database
\* server's arrivals equal the cache's misses and the cache server's arrivals
\* equal the cache's hits; with a hit rate of 1.0 the database server's
\* arrivals stay 0.
C14_CacheBypassAccounting ==
    cache_enabled =>
        /\ server[DbName].arrivals = cache.misses
        /\ server[CacheName].arrivals = cache.hits
        /\ cache.hit_rate = 2 => server[DbName].arrivals = 0

C14_Witness ==
    /\ cache_enabled
    /\ cache.hits >= 1
    /\ cache.misses >= 1
    /\ server[DbName].arrivals >= 1
    /\ server[CacheName].arrivals >= 1

\* C15 (as stated): a strategy that is not one of the three is rejected when
\* the system is configured: under it no arrival is ever admitted and no
\* request is ever dispatched.
C15_UnknownStrategyRejected ==
    load_balancing_strategy \notin Strategies =>
        /\ system.total_requests = 0
        /\ load_balancer.total_requests = 0

\* C16 (as stated): a server count below one is rejected before the run
\* starts: under it no arrival is ever admitted and no event loop error ends
\* the run.
C16_InvalidCountRejected ==
    num_app_servers < 1 =>
        /\ system.total_requests = 0
        /\ phase # "failed"

\* C17 (as stated): with caching enabled, a hit rate outside [0, 1] is
\* rejected: no run with it returns metrics.
C17_HitRateRejected ==
    (cache_enabled /\ cache.hit_rate \notin 0..2) => phase # "returned"

\* a pending event e goes before a pending event f
CreatedBefore(e, f) == e.eid < f.eid
GoesBefore(e, f) ==
    \/ e.time < f.time
    \/ e.time = f.time /\ e.prio < f.prio
    \/ e.time = f.time /\ e.prio = f.prio /\ CreatedBefore(e, f)

\* C19 (as stated): pending events of the same virtual time are resumed in
\* creation order, whatever their kinds: the event list holds them in that
\* order and each step resumes its head.
C19_CreationOrder ==
    \A i, j \in 1..Len(events) :
        (i < j /\ events[i].time = events[j].time) =>
            CreatedBefore(events[i], events[j])

\* C19 (amended): pending events are resumed by time, then by priority (the
\* start of a process and the until event are urgent), then in creation
\* order.
C19_PriorityThenCreation ==
    \A i \in 1..(Len(events) - 1) : GoesBefore(events[i], events[i + 1])

C19_Witness ==
    \E i, j \in 1..Len(events) :
        /\ i < j
        /\ events[i].time = events[j].time
        /\ events[i].prio = URGENT /\ events[j].prio = NORMAL
        /\ CreatedBefore(events[j], events[i])
        /\ events[i].kind = "ReqInit"

AlwaysKeys == SystemKeys \cup {"parameters"}

\* C20: the returned metrics have the keys cache and cache_server exactly
\* when caching is enabled; app_server, app_servers_individual (with
\* num_app_servers entries), load_balancer, db_server, system and parameters
\* are always present.
C20_MetricsShape ==
    phase = "returned" =>
        /\ "cache" \in RunMetricsKeys <=> cache_enabled
        /\ "cache_server" \in RunMetricsKeys <=> cache_enabled
        /\ AlwaysKeys \subseteq RunMetricsKeys
        /\ RunMetricsKeys \subseteq AlwaysKeys \cup {"cache", "cache_server"}
        /\ IndividualEntries = 1..num_app_servers

C20_Witness ==
    /\ phase = "returned"
    /\ cache_enabled
    /\ num_app_servers = 2
    /\ DOMAIN RunMetrics = AlwaysKeys \cup {"cache", "cache_server"}
    /\ DOMAIN RunMetrics["app_servers_individual"] = 1..2
    /\ RunMetrics["cache"].total_requests >= 1

\* C21: analytical_mm1_metrics called with arrival_rate >= service_rate does
\* not raise and returns infinite utilization and avg_queue_length; the
\* finite formulas are used only when arrival_rate < service_rate.
C21_UnstableTier ==
    analytical.called =>
        LET res == analytical.result
        IN  /\ analytical.arrival_rate >= analytical.service_rate =>
                  /\ ~res.raised
                  /\ res.utilization.inf
                  /\ res.avg_queue_length.inf
            /\ (res.raised \/ ~res.utilization.inf) =>
                  analytical.arrival_rate < analytical.service_rate

C21_Witness ==
    /\ analytical.called
    /\ analytical.arrival_rate = analytical.service_rate
    /\ analytical.arrival_rate > 0
    /\ analytical.result.utilization.inf

\* the cache c made to hold key, and made not to hold it
Holding(c, key) == [c EXCEPT !.cache_store = Evict(Insert(@, key), c.capacity)]
NotHolding(c, key) == [c EXCEPT !.cache_store = Remove(@, key)]
CounterChange(c, d) ==
    <<d.hits - c.hits, d.misses - c.misses, d.total_requests - c.total_requests>>

\* C22: the outcome of Cache.access and its effect on hits, misses and
\* total_requests depend only on the draw: two caches with the same hit_rate
\* and the same draw, one holding the key and one not, return the same
\* outcome and change the three counters identically.
C22_HitMissIndependence ==
    \A key \in Keys, u \in UniformDraws :
        LET with == Holding(cache, key)
            without == NotHolding(cache, key)
            a == CacheAccess(with, key, u)
            b == CacheAccess(without, key, u)
        IN  /\ InStore(with, key) /\ ~InStore(without, key)
            /\ a.hit = b.hit
            /\ a.hit <=> u < cache.hit_rate
            /\ CounterChange(with, a.cache) = CounterChange(without, b.cache)

C22_Witness ==
    /\ cache.hit_rate = 1
    /\ cache.hits >= 1
    /\ cache.misses >= 1
    /\ \E k, j \in Keys : InStore(cache, k) /\ ~InStore(cache, j)
    /\ Len(access_log) = cache.total_requests

Completes(r) == req[r].pc # "done" /\ req'[r].pc = "done"

\* C23: when a request completes, exactly one latency, the clock at
\* completion minus the request's arrival_time, is appended to the latency
\* list and completed_requests grows by one; the list has length
\* completed_requests and every recorded latency is >= 0.
C23_CompletionRecord ==
    [][/\ Len(system'.end_to_end_times) = system'.completed_requests
       /\ \A i \in 1..Len(system'.end_to_end_times) : system'.end_to_end_times[i] >= 0
       /\ \A r \in RequestIds :
             Completes(r) =>
                 /\ system'.completed_requests = system.completed_requests + 1
                 /\ system'.end_to_end_times =
                        Append(system.end_to_end_times, now' - req[r].arrival_time)
       /\ system'.completed_requests # system.completed_requests =>
             \E r \in RequestIds : Completes(r)
       /\ system'.end_to_end_times # system.end_to_end_times =>
             \E r \in RequestIds : Completes(r)]_vars

C23_Witness ==
    /\ system.completed_requests = 1
    /\ system.end_to_end_times = <<2>>
    /\ \E r \in RequestIds : req[r].pc = "done" /\ req[r].arrival_time = now - 2

LastSample(s) == server[s].queue_lengths[Len(server[s].queue_lengths)]

\* C24 (as stated): a (time, length) sample is recorded whenever a request
\* enters or leaves a server's waiting queue, with the resulting number of
\* waiters; so between events the latest sample of a server shows the current
\* length of its waiting queue.
C24_LatestSampleIsQueueLength ==
    \A s \in AllServerNames :
        IF server[s].queue_lengths = <<>>
        THEN server[s].queue = <<>>
        ELSE /\ LastSample(s)[2] = Len(server[s].queue)
             /\ LastSample(s)[1] <= now

\* The time-integral over [0, now] of the number of requests in the waiting
\* queue of s is the time its requests have spent there: the waits booked by
\* those that were resumed, and the time since arrival of those not resumed.
WaitingArea(s) ==
    server[s].total_wait_time
    + SumSeq([i \in 1..SimTime |->
                IF req[i - 1].pc = "wait" /\ req[i - 1].at = s
                THEN now - req[i - 1].wait_start
                ELSE 0])

\* get_avg_queue_length() * now
AvgQueueLengthTimesNow(s) ==
    IF Len(server[s].queue_lengths) < 2 \/ now = 0
    THEN 0
    ELSE QueueArea(server[s].queue_lengths)

\* C25 (as stated): for every server get_avg_queue_length() * now is the
\* area under the actual waiting-queue length over [0, now].
C25_TimeWeightedQueueLength ==
    \A s \in AllServerNames : AvgQueueLengthTimesNow(s) = WaitingArea(s)

\* the most recently used entry of the recency structure is its last one
MostRecent(store) == store[Len(store)]

\* C26 (as stated): after any Cache.access(key), hit or miss, key is in the
\* recency structure and is its most recently used entry.
C26_TouchOnEveryAccess ==
    \A key \in Keys, u \in UniformDraws :
        LET after == CacheAccess(cache, key, u).cache
        IN  /\ InStore(after, key)
            /\ MostRecent(after.cache_store) = key

\* the position in the log of the latest access to key k (0: never accessed)
LastAccess(k) ==
    Max({0} \cup {i \in 1..Len(access_log) : access_log[i].key = k})

\* C27 (as stated): Cache.access evicts only when an insertion makes the
\* structure exceed capacity, then exactly one key, and that key is the stored
\* key whose latest access, hit or miss, is older than that of every other
\* stored key; the key just accessed is never evicted.
C27_LruEviction ==
    \A key \in Keys, u \in UniformDraws :
        LET before == cache.cache_store
            after == CacheAccess(cache, key, u).cache.cache_store
            evicted == Range(before) \ Range(after)
        IN  /\ Cardinality(evicted) <= 1
            /\ key \in Range(after)
            /\ evicted # {} =>
                  /\ key \notin Range(before)
                  /\ Len(before) = cache.capacity
                  /\ \A e \in evicted, k \in Range(before) \ evicted :
                        LastAccess(e) < LastAccess(k)

\* C28 (as stated): with a strategy that is none of the three, select_server
\* falls back to round-robin: it returns servers[cursor], advances the cursor
\* modulo the number of servers and counts the dispatch once.
C28_FallbackRoundRobin ==
    (load_balancing_strategy \notin Strategies /\ num_app_servers >= 1) =>
        /\ phase # "failed"
        /\ \A r \in RequestIds : req[r].pc # "failed"
        /\ load_balancer.total_requests = Cardinality(Dispatched)
        /\ load_balancer.current_index =
              load_balancer.total_requests % num_app_servers
        /\ \A r \in Dispatched : req[r].app_server = AppName(r % num_app_servers)

\* C29: when the metrics are collected the clock is simulation_time; the
\* only step that brings the clock to the horizon, or beyond, is the end of
\* the run, which changes no Server, Cache, LoadBalancer or system counter;
\* utilization, throughput and system_throughput divide by simulation_time.
C29_HorizonFreeze ==
    [][/\ now' >= SimTime =>
             /\ NextEvent.kind = "Stop"
             /\ now' = SimTime
             /\ phase' = "returned"
             /\ server' = server
             /\ cache' = cache
             /\ load_balancer' = load_balancer
             /\ system' = system
       /\ phase' = "returned" =>
             /\ now' = SimTime
             /\ \A s \in Servers :
                   /\ ServerGetMetrics(server', s, now').utilization[2] = SimTime
                   /\ ServerGetMetrics(server', s, now').throughput[2] = SimTime
             /\ Quot(system'.completed_requests, now')[2] = SimTime]_vars

C29_Witness ==
    /\ phase = "returned"
    /\ now = SimTime
    /\ \E i \in 1..Len(events) :
          events[i].time = SimTime /\ events[i].kind = "Timeout"
    /\ system.completed_requests >= 1

\* C30: the clock never decreases; the event processed is the earliest
\* pending one, so a process resumed after a suspension sees a clock at least
\* as large as before, and every recorded wait and service time is >= 0.
C30_ClockMonotonic ==
    [][/\ now' >= now
       /\ \A i \in 1..Len(events) : events[i].time >= now
       /\ (Running /\ now' # now) => now' = NextEvent.time
       /\ \A r \in RequestIds :
             /\ req'[r].wait_time >= 0
             /\ req'[r].service_time >= 0
             /\ req'[r].pc # "none" => now' >= req'[r].arrival_time
             /\ req'[r].pc \in {"wait", "serve", "done"} =>
                   /\ req'[r].wait_start >= req'[r].arrival_time
                   /\ now' >= req'[r].wait_start
       /\ \A s \in AllServerNames :
             /\ server'[s].total_wait_time >= server[s].total_wait_time
             /\ server'[s].total_service_time >= server[s].total_service_time
             /\ \A i \in 1..Len(server'[s].response_times) :
                   server'[s].response_times[i] >= 0
             /\ \A i \in 1..Len(server'[s].service_times) :
                   server'[s].service_times[i] >= 0]_vars

C30_Witness ==
    \E r \in RequestIds :
        /\ req[r].pc = "serve"
        /\ req[r].wait_time >= 1
        /\ now = req[r].wait_start + req[r].wait_time

\* Cache.get_hit_rate
GetHitRate(c) == CacheGetMetrics(c).hit_rate

HitsLogged == Cardinality({i \in 1..Len(access_log) : access_log[i].hit})
MissesLogged == Cardinality({i \in 1..Len(access_log) : ~access_log[i].hit})

\* C31: hits + misses = total_requests in every state; every access adds one
\* to total_requests and one to exactly one of hits and misses (so the three
\* counters are the numbers of accesses, of hits and of misses made so far);
\* get_hit_rate is 0 with no request yet and hits / total_requests otherwise.
C31_CacheCounters ==
    /\ cache.hits + cache.misses = cache.total_requests
    /\ cache.total_requests = Len(access_log)
    /\ cache.hits = HitsLogged
    /\ cache.misses = MissesLogged
    /\ cache.total_requests = 0 => GetHitRate(cache) = <<0, 1>>
    /\ cache.total_requests > 0 =>
          GetHitRate(cache) = <<cache.hits, cache.total_requests>>

C31_Witness ==
    /\ cache.hits >= 1
    /\ cache.misses >= 2
    /\ GetHitRate(cache) = <<cache.hits, cache.hits + cache.misses>>

\* C32: a call of get_metrics changes no counter, sample list, latency list,
\* cache content, load-balancer cursor or clock, and returns what a call in
\* the state it leaves returns: two consecutive calls give equal results.
C32_ReadOnlySnapshot ==
    [][metrics' # metrics =>
          /\ UNCHANGED <<now, events, phase, server, cache, load_balancer,
                         system, request_id, req>>
          /\ metrics'[Len(metrics')] = SystemGetMetrics'
          /\ Len(metrics) >= 1 => metrics'[Len(metrics')] = metrics[Len(metrics)]]_vars

C32_Witness ==
    /\ Len(metrics) = 2
    /\ metrics[1] = metrics[2]
    /\ system.completed_requests >= 1
    /\ cache_enabled /\ cache.total_requests >= 1

\* a step in which server s counts a departure
Departs(s) == server'[s].departures # server[s].departures

\* C33: at every server each departure appends exactly one response time,
\* the departing request's wait (from asking for the Resource to getting it)
\* plus its service time; in every state the number of response times is
\* the number of departures and total_service_time is the sum of the service
\* times of the departed requests.
C33_ResponseRecord ==
    [][\A s \in AllServerNames :
          /\ Len(server'[s].response_times) = server'[s].departures
          /\ Len(server'[s].service_times) = server'[s].departures
          /\ server'[s].total_service_time = SumSeq(server'[s].service_times)
          /\ Departs(s) =>
                LET r == NextEvent.proc
                IN  /\ NextEvent.kind = "Timeout" /\ req[r].at = s
                    /\ server'[s].departures = server[s].departures + 1
                    /\ req[r].wait_time + req[r].wait_start + req[r].service_time = now'
                    /\ server'[s].service_times =
                          Append(server[s].service_times, req[r].service_time)
                    /\ server'[s].response_times =
                          Append(server[s].response_times,
                                 req[r].wait_time + req[r].service_time)
          /\ ~Departs(s) =>
                /\ server'[s].response_times = server[s].response_times
                /\ server'[s].service_times = server[s].service_times]_vars

C33_Witness ==
    /\ server[DbName].departures >= 1
    /\ server[DbName].response_times[1] = 1
    /\ \E s \in AppNames :
          server[s].departures >= 1 /\ server[s].total_service_time >= 1

\* the requests at a server are those that arrived and have not departed
InSystem(sv, s) ==
    /\ sv[s].arrivals - sv[s].departures = Len(sv[s].queue) + Len(sv[s].users)
    /\ Len(sv[s].users) \in {0, 1}

\* C34: at every server, before and after every step, arrivals - departures
\* is the number of requests waiting in its queue plus the number in
\* service, which is 0 or 1: no step leaves the arrival counter and the
\* queue entry, or the departure counter and the release, out of step.
C34_NumberInSystem ==
    [][\A s \in AllServerNames : InSystem(server, s) /\ InSystem(server', s)]_vars

C34_Witness ==
    \E s \in AllServerNames :
        /\ Len(server[s].queue) = 1
        /\ Len(server[s].users) = 1
        /\ server[s].departures >= 1
        /\ server[s].arrivals = server[s].departures + 2

\* sums over the first k app servers
RECURSIVE AppDepartures(_, _)
AppDepartures(sv, k) ==
    IF k = 0 THEN 0 ELSE sv[AppName(k - 1)].departures + AppDepartures(sv, k - 1)

RECURSIVE AppArrivals(_, _)
AppArrivals(sv, k) ==
    IF k = 0 THEN 0 ELSE sv[AppName(k - 1)].arrivals + AppArrivals(sv, k - 1)

HandedOver(sv, c) ==
    /\ AppDepartures(sv, MaxServers) = sv[DbName].arrivals + sv[CacheName].arrivals
    /\ ~cache_enabled => sv[CacheName].arrivals = 0
    /\ cache_enabled => c.total_requests = AppDepartures(sv, MaxServers)

\* C35: a request leaving an app server reaches its second stage in the same
\* step: before and after every step the departures of all app servers add
\* up to the arrivals of the db server plus those of the cache server (0
\* with caching disabled), and with caching enabled to the cache's
\* total_requests; a step that counts an app departure counts one arrival at
\* the db or the cache server.
C35_InstantHandOver ==
    [][/\ HandedOver(server, cache)
       /\ HandedOver(server', cache')
       /\ \A s \in AppNames :
             Departs(s) =>
                 server'[DbName].arrivals + server'[CacheName].arrivals =
                     server[DbName].arrivals + server[CacheName].arrivals + 1]_vars

C35_Witness ==
    /\ cache_enabled
    /\ AppDepartures(server, MaxServers) = 2
    /\ server[DbName].arrivals = 1
    /\ server[CacheName].arrivals = 1

CompletedAreDeparted(sv, sys) ==
    /\ sys.completed_requests = sv[DbName].departures + sv[CacheName].departures
    /\ ~cache_enabled => sv[CacheName].departures = 0

\* C36: before and after every step completed_requests is the departures of
\* the db server plus those of the cache server (0 with caching disabled); a
\* request completes in the step in which it departs its second-stage
\* server, and in no other.
C36_CompletionAccounting ==
    [][/\ CompletedAreDeparted(server, system)
       /\ CompletedAreDeparted(server', system')
       /\ \A r \in RequestIds :
             Completes(r) => req[r].at \in {DbName, CacheName} /\ Departs(req[r].at)
       /\ (Departs(DbName) \/ Departs(CacheName)) =>
             /\ Completes(NextEvent.proc)
             /\ system'.completed_requests = system.completed_requests + 1]_vars

C36_Witness ==
    /\ cache_enabled
    /\ system.completed_requests = 1
    /\ server[CacheName].departures = 1
    /\ server[DbName].arrivals = 1
    /\ server[DbName].departures = 0

\* requests spawned whose process has not yet taken its first step
AwaitingFirstStep(rq) == {r \in RequestIds : rq[r].pc = "init"}

\* C37: for a recognized strategy and a non-empty server list, every call
\* of select_server adds exactly one to load_balancer.total_requests and
\* returns a member of the list, where the arrival is counted in the same
\* step; in every state where no spawned request awaits its first step,
\* load_balancer.total_requests = system.total_requests = the arrivals of
\* all app servers; no request awaits its first step when the run returns,
\* so the three numbers, which get_metrics copies, agree in the metrics.
C37_DispatchAccounting ==
    [][WellFormed =>
          /\ load_balancer'.total_requests # load_balancer.total_requests =>
                /\ NextEvent.kind = "ReqInit"
                /\ load_balancer'.total_requests = load_balancer.total_requests + 1
                /\ req'[NextEvent.proc].app_server \in Range(app_servers)
                /\ server'[req'[NextEvent.proc].app_server].arrivals =
                      server[req'[NextEvent.proc].app_server].arrivals + 1
          /\ load_balancer'.total_requests = AppArrivals(server', MaxServers)
          /\ AwaitingFirstStep(req') = {} =>
                load_balancer'.total_requests = system'.total_requests
          /\ phase' = "returned" => AwaitingFirstStep(req') = {}]_vars

C37_Witness ==
    /\ WellFormed
    /\ phase = "returned"
    /\ num_app_servers = 2
    /\ load_balancer.total_requests = 3
    /\ server[AppName(0)].arrivals >= 1
    /\ server[AppName(1)].arrivals >= 1

\* the keys accessed so far
KeysAccessed == {access_log[i].key : i \in 1..Len(access_log)}

\* Cache.get_metrics()['current_size']
CurrentSize(c) == CacheGetMetrics(c).current_size

\* C38: after any sequence of access calls on a Cache of capacity >= 1,
\* current_size is the smaller of the capacity and the number of distinct
\* keys accessed so far; from one access to the next it never decreases, and
\* once at capacity it stays there.
C38_CacheSizeLaw ==
    [][/\ CurrentSize(cache') = Min({cache'.capacity, Cardinality(KeysAccessed')})
       /\ CurrentSize(cache') >= CurrentSize(cache)
       /\ CurrentSize(cache) = cache.capacity => CurrentSize(cache') = cache'.capacity]_vars

C38_Witness ==
    /\ cache.capacity = 2
    /\ Cardinality(KeysAccessed) = 3
    /\ CurrentSize(cache) = 2
    /\ \E i \in 1..Len(access_log) : access_log[i].hit

\* the time at which request r, now in service, got the Resource
ServiceStart(r) == req[r].wait_start + req[r].wait_time

\* the time server s has spent serving: the completed services and the
\* elapsed part of the one in progress
BusyTime(s) ==
    server[s].total_service_time +
        IF Serving(s) = {} THEN 0
        ELSE now - ServiceStart(CHOOSE r \in Serving(s) : TRUE)

\* C39: at every server total_service_time grows only when a service
\* completes, by that service's time; the services counted were over when
\* the one that completes, or is in progress, began, so they do not
\* overlap; hence after every step total_service_time <= busy time <= now
\* and the utilization lies in [0, 1], whatever the arrival and service times.
C39_BusyTimeAccounting ==
    [][\A s \in AllServerNames :
          /\ ~Departs(s) => server'[s].total_service_time = server[s].total_service_time
          /\ Departs(s) =>
                LET r == NextEvent.proc
                IN  /\ server'[s].total_service_time =
                          server[s].total_service_time + req[r].service_time
                    /\ server[s].total_service_time <= ServiceStart(r)
                    /\ ServiceStart(r) + req[r].service_time = now'
          /\ Quot(server'[s].total_service_time, now')[1] \in 0..now'
       /\ \A r \in RequestIds :
             req'[r].pc = "serve" =>
                 /\ server'[req'[r].at].total_service_time <=
                       req'[r].wait_start + req'[r].wait_time
                 /\ req'[r].wait_start + req'[r].wait_time <= now']_vars

C39_Witness ==
    \E s \in AllServerNames :
        /\ server[s].departures >= 1
        /\ Serving(s) # {}
        /\ server[s].total_service_time < BusyTime(s)
        /\ phase = "returned"

\* the response time recorded at server s for request r: a server serves
\* one request at a time, so its i-th response time is that of the i-th
\* request it began to serve
ServiceIndex(s, r) == CHOOSE i \in 1..Len(service_order[s]) : service_order[s][i] = r
RecordedResponse(sv, s, r) == sv[s].response_times[ServiceIndex(s, r)]

\* C40: a request asks for its app server at the time it was admitted, and
\* for its second-stage server at the time it leaves the app server; the
\* end-to-end latency recorded when it completes is the response time
\* recorded for it at its app server plus the one recorded for it at the
\* cache or the db server.
C40_LatencyDecomposition ==
    [][\A r \in RequestIds :
          /\ (req'[r].pc \in {"wait", "serve"} /\ req'[r].stage = "app") =>
                req'[r].wait_start = req'[r].arrival_time
          /\ (req'[r].pc \in {"wait", "serve"} /\ req'[r].stage # "app") =>
                req'[r].wait_start = req'[r].arrival_time +
                    RecordedResponse(server', req'[r].app_server, r)
          /\ Completes(r) =>
                /\ req[r].at \in {DbName, CacheName}
                /\ system'.end_to_end_times[Len(system'.end_to_end_times)] =
                      RecordedResponse(server', req[r].app_server, r) +
                      RecordedResponse(server', req[r].at, r)]_vars

C40_Witness ==
    \E r \in RequestIds :
        /\ req[r].pc = "done"
        /\ req[r].at = CacheName
        /\ system.end_to_end_times = <<2>>
        /\ RecordedResponse(server, req[r].app_server, r) = 1
        /\ RecordedResponse(server, CacheName, r) = 1
====
